---- MODULE Spec2Model ----
(***************************************************************************)
(* Attack trees of docs/security/attack-trees-analysis.py: the AttackNode  *)
(* / AttackTree data model, the path search, the leaf enumeration, the     *)
(* serialisation and the Mermaid exporter.                                 *)
(*                                                                         *)
(* A node object is named by its position in the sequence nodes; the       *)
(* children field of a node holds such names, in stored order.  Trees are  *)
(* built the way the build_* routines build them, by constructing a node   *)
(* and appending it to a parent with add_child; the model numbers the      *)
(* nodes in pre-order, so that every ordered tree has exactly one          *)
(* numbering.  Free-text fields that no operation inspects (name,          *)
(* description, cve_refs, file_refs, time_hours and the requires flags)    *)
(* are left out.                                                           *)
(***************************************************************************)
EXTENDS Integers, Sequences, FiniteSets, TLC

MaxPathNodes == 5

MaxNodes == 3

VARIABLES nodes, phase, ret, exporter

vars == <<nodes, phase, ret, exporter>>

(***************************************************************************)
(* Enumerations                                                            *)
(***************************************************************************)
NodeType == [OR |-> "or", AND |-> "and", LEAF |-> "leaf"]

Difficulty == [TRIVIAL |-> 1, LOW |-> 2, MEDIUM |-> 3, HIGH |-> 4, EXPERT |-> 5]

Cost == [FREE |-> 0, LOW |-> 1, MEDIUM |-> 2, HIGH |-> 3, VERY_HIGH |-> 4]

DetectionRisk == [NONE |-> 0, LOW |-> 1, MEDIUM |-> 2, HIGH |-> 3, CERTAIN |-> 4]

\* AttackAttributes(): the defaults every node constructed without attributes gets
AttackAttributes ==
  [difficulty |-> "MEDIUM", cost |-> "MEDIUM", detection_risk |-> "MEDIUM"]

\* AttackNode(id, node_type, attributes, mitigations): children starts empty
AttackNode(id, node_type, attributes, mitigations) ==
  [id |-> id, node_type |-> node_type, attributes |-> attributes,
   children |-> <<>>, mitigations |-> mitigations]

\* the values the minimize argument takes in the three public entry points
Metrics == {"difficulty", "cost", "detection"}

(***************************************************************************)
(* Input domains of the model                                              *)
(***************************************************************************)
\* attribute blocks given to LEAF nodes: the two disagree on every metric
LeafAttributes ==
  { [difficulty |-> "TRIVIAL", cost |-> "HIGH", detection_risk |-> "NONE"],
    [difficulty |-> "HIGH", cost |-> "LOW", detection_risk |-> "MEDIUM"] }

\* what a constructor call may pass: OR and AND nodes are built with the
\* default attributes and no mitigations, as in every build_* routine
NodeInputs(mitigationChoices) ==
  [node_type : {NodeType.OR, NodeType.AND}, attributes : {AttackAttributes},
   mitigations : {<<>>}]
  \cup
  [node_type : {NodeType.LEAF}, attributes : LeafAttributes,
   mitigations : mitigationChoices]

\* ids are compared for equality only: a new node either reuses an id
\* already in the tree or takes the next unused one
UsedIds(ns) == { ns[i].id : i \in DOMAIN ns }

FreshId(ns) == Cardinality(UsedIds(ns)) + 1

(***************************************************************************)
(* Tree navigation                                                         *)
(***************************************************************************)
\* AttackTree.root: the node the build_* routines construct first
root == 1

Range(s) == { s[i] : i \in DOMAIN s }

ParentOf(ns, c) == CHOOSE p \in DOMAIN ns : c \in Range(ns[p].children)

RECURSIVE IsAncestorOrSelf(_, _, _)
IsAncestorOrSelf(ns, a, n) ==
  IF a = n THEN TRUE
  ELSE IF n = root THEN FALSE
  ELSE IsAncestorOrSelf(ns, a, ParentOf(ns, n))

(***************************************************************************)
(* AttackTree._path_score                                                  *)
(***************************************************************************)
MetricValue(node, metric) ==
  IF metric = "difficulty" THEN Difficulty[node.attributes.difficulty]
  ELSE IF metric = "cost" THEN Cost[node.attributes.cost]
  ELSE IF metric = "detection" THEN DetectionRisk[node.attributes.detection_risk]
  ELSE 0

\* faulty variant of CountsInScore: every node of the path is counted
CountsInScoreAll(node) == TRUE

CountsInScore(node) == node.node_type = NodeType.LEAF

RECURSIVE _path_score(_, _, _)
_path_score(ns, path, metric) ==
  IF path = <<>> THEN 0
  ELSE (IF CountsInScore(ns[Head(path)])
          THEN MetricValue(ns[Head(path)], metric) ELSE 0)
       + _path_score(ns, Tail(path), metric)

(***************************************************************************)
(* AttackTree._find_path                                                   *)
(***************************************************************************)
\* best_path = None, best_score = float('inf')
NoBest == [found |-> FALSE, score |-> 0, path |-> <<>>]

\* faulty variant of OrStep: the first child is kept whatever the scores
OrStepFirst(best, child_path, score) ==
  IF ~best.found
    THEN [found |-> TRUE, score |-> score, path |-> child_path]
    ELSE best

\* faulty variant of OrStep: on equal scores the later child is kept
OrStepLastWins(best, child_path, score) ==
  IF (~best.found) \/ score <= best.score
    THEN [found |-> TRUE, score |-> score, path |-> child_path]
    ELSE best

\* faulty variant of OrStep: the child with the largest score is kept
OrStepMax(best, child_path, score) ==
  IF (~best.found) \/ score > best.score
    THEN [found |-> TRUE, score |-> score, path |-> child_path]
    ELSE best

\* one iteration of the OR loop: if score < best_score: take the child
OrStep(best, child_path, score) ==
  IF (~best.found) \/ score < best.score
    THEN [found |-> TRUE, score |-> score, path |-> child_path]
    ELSE best

\* faulty variant of AndChildren: the children are taken last-to-first
AndChildrenReversed(children) ==
  [i \in 1..Len(children) |-> children[Len(children) + 1 - i]]

\* faulty variant of AndChildren: the last child of an AND node is skipped
AndChildrenButLast(children) ==
  IF Len(children) > 1 THEN SubSeq(children, 1, Len(children) - 1) ELSE children

\* for child in node.children (AND branch)
AndChildren(children) == children

RECURSIVE _find_path(_, _, _)
RECURSIVE OrLoop(_, _, _, _)
RECURSIVE AndLoop(_, _, _)

_find_path(ns, n, minimize) ==
  IF ns[n].node_type = NodeType.LEAF THEN <<n>>
  ELSE IF ns[n].children = <<>> THEN <<n>>
  ELSE IF ns[n].node_type = NodeType.OR
    THEN <<n>> \o OrLoop(ns, ns[n].children, minimize, NoBest).path
    ELSE <<n>> \o AndLoop(ns, AndChildren(ns[n].children), minimize)

OrLoop(ns, children, minimize, best) ==
  IF children = <<>> THEN best
  ELSE LET child_path == _find_path(ns, Head(children), minimize)
           score == _path_score(ns, child_path, minimize)
       IN  OrLoop(ns, Tail(children), minimize, OrStep(best, child_path, score))

AndLoop(ns, children, minimize) ==
  IF children = <<>> THEN <<>>
  ELSE _find_path(ns, Head(children), minimize)
       \o AndLoop(ns, Tail(children), minimize)

(***************************************************************************)
(* AttackTree.get_all_leaf_attacks / get_unmitigated_attacks               *)
(***************************************************************************)
\* faulty variant of IsLeafAttack: every node without children is collected
IsChildless(node) == node.children = <<>>

\* if node.node_type == NodeType.LEAF
IsLeafAttack(node) == node.node_type = NodeType.LEAF

RECURSIVE _collect_leaves(_, _, _)
RECURSIVE CollectLoop(_, _, _)

_collect_leaves(ns, n, leaves) ==
  CollectLoop(ns, ns[n].children,
              IF IsLeafAttack(ns[n]) THEN Append(leaves, n) ELSE leaves)

CollectLoop(ns, children, leaves) ==
  IF children = <<>> THEN leaves
  ELSE CollectLoop(ns, Tail(children),
                   _collect_leaves(ns, Head(children), leaves))

\* faulty variant of IsUnmitigated: the mitigated attacks are kept instead
IsMitigated(node) == node.mitigations # <<>>

\* if not n.mitigations
IsUnmitigated(node) == node.mitigations = <<>>

UnmitigatedOf(ns, leaves) ==
  LET Keep(n) == IsUnmitigated(ns[n]) IN SelectSeq(leaves, Keep)

(***************************************************************************)
(* AttackTree.to_dict / _node_to_dict                                      *)
(***************************************************************************)
\* faulty variant of DictChildren: the children are serialised last-to-first
ReversedChildren(children) ==
  [i \in 1..Len(children) |-> children[Len(children) + 1 - i]]

\* for c in node.children
DictChildren(children) == children

RECURSIVE _node_to_dict(_, _)
_node_to_dict(ns, n) ==
  [id |-> ns[n].id,
   type |-> ns[n].node_type,
   attributes |-> [difficulty |-> ns[n].attributes.difficulty,
                   cost |-> ns[n].attributes.cost,
                   detection_risk |-> ns[n].attributes.detection_risk],
   mitigations |-> ns[n].mitigations,
   children |-> LET cs == DictChildren(ns[n].children)
                IN  [i \in 1..Len(cs) |-> _node_to_dict(ns, cs[i])]]

(***************************************************************************)
(* MermaidExporter                                                         *)
(***************************************************************************)
\* parent_id of the root call: self._export_node(self.tree.root, None)
NoParent == [N |-> -1]

\* node_id = f"N{self._node_count}"
DiagramId(count) == [N |-> count]

\* MermaidExporter(tree): _lines = [], _node_count = 0, _node_ids = {}
MermaidExporter == [_lines |-> <<>>, _node_count |-> 0, _node_ids |-> <<>>]

\* self._node_ids[key] = value
Put(dict, key, value) ==
  [k \in DOMAIN dict \cup {key} |-> IF k = key THEN value ELSE dict[k]]

\* faulty variant of _get_leaf_style: the difficulty colour wins over the
\* mitigated style
LeafStyleByDifficulty(node) ==
  LET colors == [TRIVIAL |-> "fill:#ff6b6b,stroke:#c92a2a,stroke-width:3px",
                 LOW |-> "fill:#ffa06b,stroke:#e67700,stroke-width:2px",
                 MEDIUM |-> "fill:#ffd93d,stroke:#fab005,stroke-width:2px",
                 HIGH |-> "fill:#6bcb77,stroke:#2f9e44,stroke-width:2px",
                 EXPERT |-> "fill:#4d96ff,stroke:#1971c2,stroke-width:2px"]
  IN  colors[node.attributes.difficulty]

_get_leaf_style(node) ==
  LET colors == [TRIVIAL |-> "fill:#ff6b6b,stroke:#c92a2a,stroke-width:3px",
                 LOW |-> "fill:#ffa06b,stroke:#e67700,stroke-width:2px",
                 MEDIUM |-> "fill:#ffd93d,stroke:#fab005,stroke-width:2px",
                 HIGH |-> "fill:#6bcb77,stroke:#2f9e44,stroke-width:2px",
                 EXPERT |-> "fill:#4d96ff,stroke:#1971c2,stroke-width:2px"]
      color == colors[node.attributes.difficulty]
  IN  IF node.mitigations = <<>> THEN color
      ELSE "fill:#d3f9d8,stroke:#51cf66,stroke-width:3px"

\* faulty variant of HasParent: an edge is drawn for the root call as well
HasParentAlways(parent_id) == TRUE

\* if parent_id: a diagram identifier is a non-empty string, None is not
HasParent(parent_id) == parent_id # NoParent

\* connector = "-->" if node.node_type != NodeType.AND else "==>"
Connector(node) == IF node.node_type # NodeType.AND THEN "-->" ELSE "==>"

ShapeOf(node) ==
  IF node.node_type = NodeType.OR THEN "(('name')" ELSE "['name']"

\* faulty variant of IsKnown: the memo is never consulted
IsKnownNever(self, id) == FALSE

\* if node.id in self._node_ids
IsKnown(self, id) == id \in DOMAIN self._node_ids

\* the diagram identifier _export_node uses for a node
NodeIdFor(ns, n, self) ==
  IF IsKnown(self, ns[n].id) THEN self._node_ids[ns[n].id]
  ELSE DiagramId(self._node_count)

\* the exporter's fields after _export_node has handled the node itself:
\* memo and counter updated, style, declaration and edge lines appended
EmitNode(ns, n, parent_id, self) ==
  LET node_id == NodeIdFor(ns, n, self)
      memo == IF IsKnown(self, ns[n].id) THEN self
              ELSE [self EXCEPT !._node_count = @ + 1,
                                !._node_ids = Put(@, ns[n].id, node_id)]
      style == IF ns[n].node_type = NodeType.LEAF
                 THEN << [line |-> "style", node_id |-> node_id,
                          style |-> _get_leaf_style(ns[n])] >>
                 ELSE <<>>
      shape == << [line |-> "node", node_id |-> node_id,
                   shape |-> ShapeOf(ns[n])] >>
      edge == IF HasParent(parent_id)
                THEN << [line |-> "edge", from |-> parent_id,
                         connector |-> Connector(ns[n]), to |-> node_id] >>
                ELSE <<>>
  IN  [memo EXCEPT !._lines = @ \o style \o shape \o edge]

RECURSIVE _export_node(_, _, _, _)
RECURSIVE ExportLoop(_, _, _, _)

\* the exporter's fields after _export_node(node, parent_id) has run on them
_export_node(ns, n, parent_id, self) ==
  ExportLoop(ns, ns[n].children, NodeIdFor(ns, n, self),
             EmitNode(ns, n, parent_id, self))

ExportLoop(ns, children, node_id, self) ==
  IF children = <<>> THEN self
  ELSE ExportLoop(ns, Tail(children), node_id,
                  _export_node(ns, Head(children), node_id, self))

\* faulty variant of ResetLines: the memo is emptied too, the counter is not
ResetLinesAndMemo(self) ==
  [self EXCEPT !._lines = << [line |-> "flowchart TD"] >>, !._node_ids = <<>>]

\* self._lines = ["flowchart TD"]
ResetLines(self) == [self EXCEPT !._lines = << [line |-> "flowchart TD"] >>]

_add_legend(self) ==
  [self EXCEPT !._lines = @ \o
     << [line |-> "classDef", class |-> "trivial"],
        [line |-> "classDef", class |-> "low"],
        [line |-> "classDef", class |-> "medium"],
        [line |-> "classDef", class |-> "high"],
        [line |-> "classDef", class |-> "expert"] >>]

(***************************************************************************)
(* State                                                                   *)
(***************************************************************************)
None == [op |-> "none"]

\* root = AttackNode(...): the first node of a build_* routine
InitWith(mitigationChoices) ==
  /\ \E in \in NodeInputs(mitigationChoices) :
       nodes = << AttackNode(1, in.node_type, in.attributes, in.mitigations) >>
  /\ phase = "build"
  /\ ret = None
  /\ exporter = None

\* parent.add_child(AttackNode(...)): construct a node and append it.  The
\* receiver is the newest node or one of its ancestors, which keeps the node
\* numbers in pre-order; its kind is not checked, so a LEAF may get children.
add_child(parent, id, in) ==
  /\ phase = "build"
  /\ IsAncestorOrSelf(nodes, parent, Len(nodes))
  /\ nodes' = Append(
       [nodes EXCEPT ![parent].children = Append(@, Len(nodes) + 1)],
       AttackNode(id, in.node_type, in.attributes, in.mitigations))
  /\ ret' = None
  /\ UNCHANGED <<phase, exporter>>

\* return AttackTree(name=..., description=..., root=root, severity=...)
NewAttackTree ==
  /\ phase = "build"
  /\ phase' = "tree"
  /\ ret' = [op |-> "AttackTree", root |-> root]
  /\ UNCHANGED <<nodes, exporter>>

find_easiest_path ==
  /\ phase = "tree"
  /\ ret' = [op |-> "find_path", minimize |-> "difficulty",
             value |-> _find_path(nodes, root, "difficulty")]
  /\ UNCHANGED <<nodes, phase, exporter>>

find_cheapest_path ==
  /\ phase = "tree"
  /\ ret' = [op |-> "find_path", minimize |-> "cost",
             value |-> _find_path(nodes, root, "cost")]
  /\ UNCHANGED <<nodes, phase, exporter>>

find_stealthiest_path ==
  /\ phase = "tree"
  /\ ret' = [op |-> "find_path", minimize |-> "detection",
             value |-> _find_path(nodes, root, "detection")]
  /\ UNCHANGED <<nodes, phase, exporter>>

\* faulty variant of get_all_leaf_attacks: the traversal pops the children
\* off the lists it walks
get_all_leaf_attacks_popping ==
  /\ phase = "tree"
  /\ ret' = [op |-> "get_all_leaf_attacks",
             value |-> _collect_leaves(nodes, root, <<>>)]
  /\ nodes' = [n \in DOMAIN nodes |-> [nodes[n] EXCEPT !.children = <<>>]]
  /\ UNCHANGED <<phase, exporter>>

get_all_leaf_attacks ==
  /\ phase = "tree"
  /\ ret' = [op |-> "get_all_leaf_attacks",
             value |-> _collect_leaves(nodes, root, <<>>)]
  /\ UNCHANGED <<nodes, phase, exporter>>

get_unmitigated_attacks ==
  /\ phase = "tree"
  /\ ret' = [op |-> "get_unmitigated_attacks",
             value |-> UnmitigatedOf(nodes, _collect_leaves(nodes, root, <<>>))]
  /\ UNCHANGED <<nodes, phase, exporter>>

to_dict ==
  /\ phase = "tree"
  /\ ret' = [op |-> "to_dict", value |-> [root |-> _node_to_dict(nodes, root)]]
  /\ UNCHANGED <<nodes, phase, exporter>>

\* exporter = MermaidExporter(tree)
NewMermaidExporter ==
  /\ phase = "tree"
  /\ exporter' = MermaidExporter
  /\ ret' = [op |-> "MermaidExporter"]
  /\ UNCHANGED <<nodes, phase>>

\* exporter.export(): the joined lines are returned
export ==
  /\ phase = "tree"
  /\ exporter # None
  /\ exporter' =
       _add_legend(_export_node(nodes, root, NoParent, ResetLines(exporter)))
  /\ ret' = [op |-> "export", value |-> exporter'._lines]
  /\ UNCHANGED <<nodes, phase>>

\* export() taken one _export_node call at a time: _calls holds the calls
\* that are still to run, the next one first
IsWalking == "_calls" \in DOMAIN exporter

ExporterFields(e) ==
  [_lines |-> e._lines, _node_count |-> e._node_count, _node_ids |-> e._node_ids]

WithCalls(self, calls) ==
  [_lines |-> self._lines, _node_count |-> self._node_count,
   _node_ids |-> self._node_ids, _calls |-> calls]

\* export() is entered: the line buffer is reset, the root call is next
export_begin ==
  /\ phase = "tree"
  /\ exporter # None
  /\ ~IsWalking
  /\ exporter' = WithCalls(ResetLines(exporter),
                           << [node |-> root, parent_id |-> NoParent] >>)
  /\ UNCHANGED <<nodes, phase, ret>>

\* one call of _export_node handles its node and queues its children
export_visit ==
  /\ IsWalking
  /\ exporter._calls # <<>>
  /\ LET call == Head(exporter._calls)
         self == ExporterFields(exporter)
         node_id == NodeIdFor(nodes, call.node, self)
         children == nodes[call.node].children
     IN  exporter' =
           WithCalls(EmitNode(nodes, call.node, call.parent_id, self),
                     [i \in 1..Len(children) |->
                        [node |-> children[i], parent_id |-> node_id]]
                     \o Tail(exporter._calls))
  /\ UNCHANGED <<nodes, phase, ret>>

\* the walk is over: the legend is added and the joined lines are returned
export_end ==
  /\ IsWalking
  /\ exporter._calls = <<>>
  /\ exporter' = _add_legend(ExporterFields(exporter))
  /\ ret' = [op |-> "export", value |-> exporter'._lines]
  /\ UNCHANGED <<nodes, phase>>

(***************************************************************************)
(* Path search on trees of up to MaxPathNodes nodes with distinct ids      *)
(***************************************************************************)
InitPath == InitWith({<<>>})

BuildPath ==
  /\ Len(nodes) < MaxPathNodes
  /\ \E parent \in DOMAIN nodes, in \in NodeInputs({<<>>}) :
       add_child(parent, FreshId(nodes), in)

NextPath ==
  \/ BuildPath
  \/ NewAttackTree
  \/ find_easiest_path
  \/ find_cheapest_path
  \/ find_stealthiest_path

SpecPath == InitPath /\ [][NextPath]_vars

(***************************************************************************)
(* Trees of up to MaxNodes nodes: leaves with or without mitigations, ids  *)
(* that may repeat                                                         *)
(***************************************************************************)
MitigationChoices == { <<>>, <<"Sanitize HTML input">> }

Init == InitWith(MitigationChoices)

Build ==
  /\ Len(nodes) < MaxNodes
  /\ \E parent \in DOMAIN nodes, id \in UsedIds(nodes) \cup {FreshId(nodes)},
        in \in NodeInputs(MitigationChoices) :
       add_child(parent, id, in)

NextLeaves ==
  \/ Build
  \/ NewAttackTree
  \/ get_all_leaf_attacks
  \/ get_unmitigated_attacks
  \/ to_dict

SpecLeaves == Init /\ [][NextLeaves]_vars

NextExport ==
  \/ Build
  \/ NewAttackTree
  \/ NewMermaidExporter
  \/ export

SpecExport == Init /\ [][NextExport]_vars

\* the walk reads a node's id, kind and children only: the trees it is
\* followed on have ids that may repeat and leaves without mitigations
BuildWalk ==
  /\ Len(nodes) < MaxNodes
  /\ \E parent \in DOMAIN nodes, id \in UsedIds(nodes) \cup {FreshId(nodes)},
        in \in NodeInputs({<<>>}) :
       add_child(parent, id, in)

NextWalk ==
  \/ BuildWalk
  \/ NewAttackTree
  \/ NewMermaidExporter
  \/ export_begin
  \/ export_visit
  \/ export_end

SpecWalk == InitPath /\ [][NextWalk]_vars

\* every operation, in any order once the tree is built; the ids are
\* distinct, as in each build_* routine
BuildTree ==
  /\ Len(nodes) < MaxNodes
  /\ \E parent \in DOMAIN nodes, in \in NodeInputs(MitigationChoices) :
       add_child(parent, FreshId(nodes), in)

Next ==
  \/ BuildTree
  \/ NewAttackTree
  \/ find_easiest_path
  \/ find_cheapest_path
  \/ find_stealthiest_path
  \/ get_all_leaf_attacks
  \/ get_unmitigated_attacks
  \/ to_dict
  \/ NewMermaidExporter
  \/ export

Spec == Init /\ [][Next]_vars

(***************************************************************************)
(* The four trees of generate_all_reports.  A script lists the add_child   *)
(* calls of a build_* routine in pre-order: the receiver's node number,    *)
(* then the arguments of the AttackNode constructed for the child.         *)
(***************************************************************************)
Step(parent, id, node_type, difficulty, cost, detection_risk, mitigations) ==
  [parent |-> parent, id |-> id,
   in |-> [node_type |-> node_type,
           attributes |-> [difficulty |-> difficulty, cost |-> cost,
                           detection_risk |-> detection_risk],
           mitigations |-> mitigations]]

Goal(parent, id, node_type) ==
  [parent |-> parent, id |-> id,
   in |-> [node_type |-> node_type, attributes |-> AttackAttributes,
           mitigations |-> <<>>]]

\* build_complete_system_compromise_tree, root G1
CompromiseScript ==
  << Goal(1, "S1", NodeType.OR),
     Step(2, "A1", NodeType.LEAF, "LOW", "LOW", "MEDIUM",
       << "Sanitize HTML input",
          "Use React JSX instead of innerHTML",
          "Implement Content Security Policy" >>),
     Step(2, "A2", NodeType.LEAF, "HIGH", "HIGH", "LOW",
       << "Dependency scanning",
          "Software Bill of Materials (SBOM)",
          "Pinned dependencies" >>),
     Goal(1, "S2", NodeType.AND),
     Step(5, "A3", NodeType.LEAF, "TRIVIAL", "FREE", "NONE",
       << "Implement authentication/authorization layer",
          "Add permission checks in Tauri commands",
          "Role-based access control" >>),
     Step(5, "A4", NodeType.LEAF, "TRIVIAL", "FREE", "LOW",
       << "Restrict command surface",
          "Sandboxed command execution",
          "Command whitelisting" >>),
     Goal(1, "S3", NodeType.OR),
     Step(8, "A5", NodeType.LEAF, "TRIVIAL", "FREE", "LOW",
       << "Path validation and sanitization",
          "Allowlist of permitted directories",
          "Chroot/jail filesystem access" >>),
     Step(8, "A6", NodeType.LEAF, "LOW", "FREE", "LOW",
       << "Validate file paths",
          "Restrict to app data directory",
          "Use secure file dialogs" >>) >>

\* build_data_exfiltration_tree, root G2
ExfiltrationScript ==
  << Goal(1, "M1", NodeType.AND),
     Step(2, "A7", NodeType.LEAF, "TRIVIAL", "FREE", "NONE",
       <<>>),
     Step(2, "A8", NodeType.LEAF, "TRIVIAL", "FREE", "LOW",
       << "Encrypt sensitive data at rest",
          "Use system credential storage",
          "File permissions" >>),
     Goal(1, "M2", NodeType.AND),
     Step(5, "A9", NodeType.LEAF, "LOW", "LOW", "MEDIUM",
       << "Content Security Policy",
          "XSS prevention",
          "DevTools protection in production" >>),
     Step(5, "A10", NodeType.LEAF, "TRIVIAL", "FREE", "NONE",
       << "Encrypt data before storage",
          "Use secure credential manager",
          "Minimal data in localStorage" >>),
     Goal(1, "M3", NodeType.AND),
     Step(8, "A11", NodeType.LEAF, "LOW", "FREE", "MEDIUM",
       << "URL whitelist validation",
          "Block internal/private IPs",
          "Network segmentation" >>),
     Step(8, "A12", NodeType.LEAF, "LOW", "FREE", "LOW",
       << "Response validation",
          "Data loss prevention",
          "Network monitoring" >>) >>

\* build_denial_of_service_tree, root G3
DenialOfServiceScript ==
  << Goal(1, "M4", NodeType.OR),
     Step(2, "A13", NodeType.LEAF, "TRIVIAL", "FREE", "HIGH",
       << "JSON size limits",
          "Streaming parsers",
          "Memory quotas" >>),
     Step(2, "A14", NodeType.LEAF, "TRIVIAL", "FREE", "MEDIUM",
       << "Cache size limits",
          "LRU eviction",
          "Disk space monitoring" >>),
     Step(2, "A15", NodeType.LEAF, "TRIVIAL", "FREE", "MEDIUM",
       << "Row count limits",
          "Field size limits",
          "Streaming CSV parser" >>),
     Step(1, "M5", NodeType.LEAF, "TRIVIAL", "LOW", "HIGH",
       << "Rate limiting on all Tauri commands",
          "Request throttling",
          "Circuit breakers" >>) >>

\* build_internal_network_recon_tree, root G4
NetworkReconScript ==
  << Goal(1, "M6", NodeType.AND),
     Step(2, "A16", NodeType.LEAF, "LOW", "FREE", "MEDIUM",
       << "Block private IP ranges",
          "URL allowlist only",
          "Network egress filtering" >>),
     Step(2, "A17", NodeType.LEAF, "LOW", "FREE", "MEDIUM",
       << "Port restrictions",
          "Protocol whitelisting (HTTPS only)",
          "URL validation" >>),
     Step(2, "A18", NodeType.LEAF, "LOW", "FREE", "HIGH",
       << "Block link-local addresses",
          "Cloud metadata endpoint blocking",
          "Network isolation" >>) >>

BuildScripts ==
  [G1 |-> CompromiseScript, G2 |-> ExfiltrationScript,
   G3 |-> DenialOfServiceScript, G4 |-> NetworkReconScript]

\* root = AttackNode(id="G1", ..., node_type=NodeType.OR) and its likes
InitReport ==
  /\ \E g \in DOMAIN BuildScripts :
       nodes = << AttackNode(g, NodeType.OR, AttackAttributes, <<>>) >>
  /\ phase = "build"
  /\ ret = None
  /\ exporter = None

\* the next add_child call of the routine that built the root
BuildReport ==
  LET script == BuildScripts[nodes[root].id]
      k == Len(nodes)
  IN  /\ k <= Len(script)
      /\ add_child(script[k].parent, script[k].id, script[k].in)

\* the routine returns the AttackTree after its last add_child
ReturnAttackTree ==
  /\ Len(nodes) = Len(BuildScripts[nodes[root].id]) + 1
  /\ NewAttackTree

NextReport ==
  \/ BuildReport
  \/ ReturnAttackTree
  \/ to_dict
  \/ NewMermaidExporter
  \/ export
  \/ get_all_leaf_attacks
  \/ get_unmitigated_attacks
  \/ find_easiest_path
  \/ find_cheapest_path
  \/ find_stealthiest_path

SpecReport == InitReport /\ [][NextReport]_vars

(***************************************************************************)
(* Properties of the path search                                           *)
(***************************************************************************)
Nodes == DOMAIN nodes

ChildSet(n) == Range(nodes[n].children)

IsFindResult == phase = "tree" /\ ret.op = "find_path"

\* a valid attack strategy: the root, every member's parent, exactly one
\* child of each included OR node that has children, every child of each
\* included AND node
IsStrategy(S) ==
  /\ root \in S
  /\ \A n \in S \ {root} : ParentOf(nodes, n) \in S
  /\ \A n \in S :
       /\ (nodes[n].node_type = NodeType.OR /\ nodes[n].children # <<>>)
            => Cardinality(S \cap ChildSet(n)) = 1
       /\ nodes[n].node_type = NodeType.AND => ChildSet(n) \subseteq S

RECURSIVE SumOver(_, _)
SumOver(S, metric) ==
  IF S = {} THEN 0
  ELSE LET n == CHOOSE x \in S : TRUE
       IN  MetricValue(nodes[n], metric) + SumOver(S \ {n}, metric)

\* the sum of the metric's ordinal over the LEAF nodes of a strategy
StrategyScore(S, metric) ==
  SumOver({ n \in S : nodes[n].node_type = NodeType.LEAF }, metric)

BestScore(n, metric) == _path_score(nodes, _find_path(nodes, n, metric), metric)

\* the returned path is a valid strategy, scored as the sum over its LEAF
\* nodes, and no valid strategy scores less
PathIsMinimalStrategy ==
  IsFindResult =>
    LET score == _path_score(nodes, ret.value, ret.minimize)
    IN  /\ IsStrategy(Range(ret.value))
        /\ score = StrategyScore(Range(ret.value), ret.minimize)
        /\ \A T \in SUBSET (Nodes \ {root}) :
             IsStrategy({root} \cup T) =>
               score <= StrategyScore({root} \cup T, ret.minimize)

\* C1: always, the path a find_*_path entry point has returned is a valid
\* attack strategy of the tree, and no valid strategy has a smaller score
\* for the entry point's metric (the score being the sum over the
\* strategy's LEAF nodes).
C1_PathIsMinimalStrategy == []PathIsMinimalStrategy

\* a search has returned on a tree whose root is an OR node over an AND node
\* with two children and an alternative, and some strategy is strictly worse
C1_Witness ==
  /\ IsFindResult
  /\ nodes[root].node_type = NodeType.OR
  /\ Len(nodes[root].children) >= 2
  /\ \E n \in ChildSet(root) :
       nodes[n].node_type = NodeType.AND /\ Len(nodes[n].children) >= 2
  /\ \E S \in SUBSET Nodes :
       /\ IsStrategy(S)
       /\ StrategyScore(S, ret.minimize)
            > _path_score(nodes, ret.value, ret.minimize)

\* C2: once an entry point has searched the tree for its metric, the score
\* of the best path of every OR node with at least one child is the score of
\* one of its children's best paths and is at most the score of every
\* child's best path; so is the score of the returned path when the root is
\* such a node.
C2_OrTakesBestChild ==
  IsFindResult =>
    /\ \A n \in Nodes :
         (nodes[n].node_type = NodeType.OR /\ nodes[n].children # <<>>) =>
           /\ \E c \in ChildSet(n) :
                BestScore(n, ret.minimize) = BestScore(c, ret.minimize)
           /\ \A c \in ChildSet(n) :
                BestScore(n, ret.minimize) <= BestScore(c, ret.minimize)
    /\ nodes[root].node_type = NodeType.OR =>
         \A c \in ChildSet(root) :
           _path_score(nodes, ret.value, ret.minimize)
             <= BestScore(c, ret.minimize)

\* a search has returned on an OR root whose later child is strictly better
\* than its first child
C2_Witness ==
  /\ IsFindResult
  /\ nodes[root].node_type = NodeType.OR
  /\ Len(nodes[root].children) >= 2
  /\ BestScore(nodes[root].children[2], ret.minimize)
       < BestScore(nodes[root].children[1], ret.minimize)

RECURSIVE ChildPathsFrom(_, _, _)
ChildPathsFrom(children, i, metric) ==
  IF i > Len(children) THEN <<>>
  ELSE _find_path(nodes, children[i], metric)
       \o ChildPathsFrom(children, i + 1, metric)

RECURSIVE ChildScoresFrom(_, _, _)
ChildScoresFrom(children, i, metric) ==
  IF i > Len(children) THEN 0
  ELSE BestScore(children[i], metric) + ChildScoresFrom(children, i + 1, metric)

\* C3: once an entry point has searched the tree for its metric, the best
\* path of every AND node is the node followed by its children's best paths
\* in child order, and its score is the sum of the children's best-path
\* scores; so is the returned path when the root is an AND node.
C3_AndConcatenatesChildren ==
  IsFindResult =>
    /\ \A n \in Nodes :
         nodes[n].node_type = NodeType.AND =>
           /\ _find_path(nodes, n, ret.minimize)
                = <<n>> \o ChildPathsFrom(nodes[n].children, 1, ret.minimize)
           /\ BestScore(n, ret.minimize)
                = ChildScoresFrom(nodes[n].children, 1, ret.minimize)
    /\ nodes[root].node_type = NodeType.AND =>
         /\ ret.value
              = <<root>> \o ChildPathsFrom(nodes[root].children, 1, ret.minimize)
         /\ _path_score(nodes, ret.value, ret.minimize)
              = ChildScoresFrom(nodes[root].children, 1, ret.minimize)

\* a search has returned on an AND root with two children, one of them an OR
\* node with children
C3_Witness ==
  /\ IsFindResult
  /\ nodes[root].node_type = NodeType.AND
  /\ Len(nodes[root].children) >= 2
  /\ \E c \in ChildSet(root) :
       nodes[c].node_type = NodeType.OR /\ nodes[c].children # <<>>
  /\ _path_score(nodes, ret.value, ret.minimize) > 0

\* C4: once an entry point has searched the tree for its metric, the best
\* path of every LEAF node is the node alone and its score is the leaf's own
\* ordinal for the metric; the best path of every OR or AND node without
\* children is the node alone with score 0; so is the returned path when the
\* root is such a node.
C4_LeafAndChildlessPaths ==
  IsFindResult =>
    /\ \A n \in Nodes :
         /\ nodes[n].node_type = NodeType.LEAF =>
              /\ _find_path(nodes, n, ret.minimize) = <<n>>
              /\ BestScore(n, ret.minimize) = MetricValue(nodes[n], ret.minimize)
         /\ (nodes[n].node_type # NodeType.LEAF /\ nodes[n].children = <<>>) =>
              /\ _find_path(nodes, n, ret.minimize) = <<n>>
              /\ BestScore(n, ret.minimize) = 0
    /\ nodes[root].node_type = NodeType.LEAF =>
         /\ ret.value = <<root>>
         /\ _path_score(nodes, ret.value, ret.minimize)
              = MetricValue(nodes[root], ret.minimize)
    /\ (nodes[root].node_type # NodeType.LEAF /\ nodes[root].children = <<>>) =>
         /\ ret.value = <<root>>
         /\ _path_score(nodes, ret.value, ret.minimize) = 0

\* a search has returned a path that holds a LEAF node with a non-zero
\* ordinal and a childless OR or AND node
C4_Witness ==
  /\ IsFindResult
  /\ \E n \in Range(ret.value) :
       /\ nodes[n].node_type = NodeType.LEAF
       /\ MetricValue(nodes[n], ret.minimize) > 0
  /\ \E n \in Range(ret.value) :
       nodes[n].node_type # NodeType.LEAF /\ nodes[n].children = <<>>

(***************************************************************************)
(* Properties of the leaf enumeration and of the serialisation             *)
(***************************************************************************)
RECURSIVE Preorder(_)
RECURSIVE PreorderFrom(_, _)

\* direct depth-first pre-order traversal, children in stored order
Preorder(n) == <<n>> \o PreorderFrom(nodes[n].children, 1)

PreorderFrom(children, i) ==
  IF i > Len(children) THEN <<>>
  ELSE Preorder(children[i]) \o PreorderFrom(children, i + 1)

LeafNodes == { n \in Nodes : nodes[n].node_type = NodeType.LEAF }

NoRepeats(s) == \A i, j \in DOMAIN s : s[i] = s[j] => i = j

\* the position of an element in a sequence without repeats
PosIn(s, x) == CHOOSE i \in DOMAIN s : s[i] = x

SameRelativeOrder(sub, s) ==
  \A i, j \in DOMAIN sub : i < j => PosIn(s, sub[i]) < PosIn(s, sub[j])

\* C5: get_all_leaf_attacks returns every LEAF node of the tree exactly
\* once, in the order of the depth-first pre-order traversal, and no OR or
\* AND node; its length plus the number of non-leaf nodes is the node count.
C5_AllLeavesInPreorder ==
  (phase = "tree" /\ ret.op = "get_all_leaf_attacks") =>
    /\ Range(ret.value) = LeafNodes
    /\ NoRepeats(ret.value)
    /\ SameRelativeOrder(ret.value, Preorder(root))
    /\ Len(ret.value) + Cardinality(Nodes \ LeafNodes) = Len(Preorder(root))
    /\ Len(Preorder(root)) = Cardinality(Nodes)

\* the enumeration has returned two leaves of a tree that also holds an OR
\* or AND node
C5_Witness ==
  /\ phase = "tree"
  /\ ret.op = "get_all_leaf_attacks"
  /\ Len(ret.value) >= 2
  /\ Nodes \ LeafNodes # {}

\* C6: get_unmitigated_attacks returns exactly the LEAF nodes whose
\* mitigations are empty, each once, in the relative order they have in the
\* result of get_all_leaf_attacks.
C6_UnmitigatedLeaves ==
  (phase = "tree" /\ ret.op = "get_unmitigated_attacks") =>
    /\ Range(ret.value) = { n \in LeafNodes : nodes[n].mitigations = <<>> }
    /\ NoRepeats(ret.value)
    /\ Range(ret.value) \subseteq Range(_collect_leaves(nodes, root, <<>>))
    /\ SameRelativeOrder(ret.value, _collect_leaves(nodes, root, <<>>))

\* the filter has returned an attack on a tree that also holds a mitigated
\* leaf and an OR or AND node, which has no mitigations either
C6_Witness ==
  /\ phase = "tree"
  /\ ret.op = "get_unmitigated_attacks"
  /\ ret.value # <<>>
  /\ \E n \in LeafNodes : nodes[n].mitigations # <<>>
  /\ \E n \in Nodes \ LeafNodes : nodes[n].mitigations = <<>>

RECURSIVE WalkDict(_)
RECURSIVE WalkDictFrom(_, _)

\* re-walk of a serialised node: one entry per node, root first, holding the
\* node's id and the ids of its children in serialised order
WalkDict(d) ==
  << [id |-> d.id, children |-> [i \in 1..Len(d.children) |-> d.children[i].id]] >>
  \o WalkDictFrom(d.children, 1)

WalkDictFrom(ds, i) ==
  IF i > Len(ds) THEN <<>>
  ELSE WalkDict(ds[i]) \o WalkDictFrom(ds, i + 1)

\* the same entries taken from the tree itself
WalkTree ==
  LET order == Preorder(root)
  IN  [k \in 1..Len(order) |->
         [id |-> nodes[order[k]].id,
          children |-> [i \in 1..Len(nodes[order[k]].children) |->
                          nodes[nodes[order[k]].children[i]].id]]]

\* C7: walking the structure to_dict returns, root entry first and then each
\* children list recursively, meets as many nodes as the tree has, the same
\* set of ids, and for every node the same children in the same order as the
\* direct traversal of the tree.
C7_DictRoundTrip ==
  (phase = "tree" /\ ret.op = "to_dict") =>
    LET walk == WalkDict(ret.value.root)
    IN  /\ Len(walk) = Cardinality(Nodes)
        /\ { walk[k].id : k \in DOMAIN walk } = UsedIds(nodes)
        /\ walk = WalkTree

\* the serialisation has returned on a tree whose root has two children with
\* different ids
C7_Witness ==
  /\ phase = "tree"
  /\ ret.op = "to_dict"
  /\ Len(ret.value.root.children) >= 2
  /\ ret.value.root.children[1].id # ret.value.root.children[2].id

(***************************************************************************)
(* Properties of the diagram export                                        *)
(***************************************************************************)
IsExportResult == phase = "tree" /\ ret.op = "export"

LinesOfKind(lines, kind) ==
  LET Keep(l) == l.line = kind IN SelectSeq(lines, Keep)

\* the nodes below the root, in the order the walk meets them
NonRootPreorder == Tail(Preorder(root))

\* C8: in the text export returns, the number of node declaration lines is
\* the number of distinct id values in the tree.
C8_NodeLinesEqualDistinctIds ==
  IsExportResult =>
    Len(LinesOfKind(ret.value, "node")) = Cardinality(UsedIds(nodes))

\* C9: in the text export returns, there are node count minus one edge
\* lines: none for the root, and for every other node, in the order of the
\* walk, one edge from its parent's diagram identifier to its own.
C9_OneEdgePerNonRootNode ==
  IsExportResult =>
    LET edges == LinesOfKind(ret.value, "edge")
    IN  /\ Len(edges) = Cardinality(Nodes) - 1
        /\ Len(edges) = Len(NonRootPreorder)
        /\ \A k \in DOMAIN edges :
             /\ edges[k].to = exporter._node_ids[nodes[NonRootPreorder[k]].id]
             /\ edges[k].from =
                  exporter._node_ids[nodes[ParentOf(nodes, NonRootPreorder[k])].id]

\* export has returned on a tree of three nodes, two of them below the same
\* parent or one below the other
C9_Witness ==
  /\ IsExportResult
  /\ Cardinality(Nodes) >= 3
  /\ Len(LinesOfKind(ret.value, "edge")) >= 2

IdsAreDistinct == Cardinality(UsedIds(nodes)) = Cardinality(Nodes)

\* C10: in the text export returns for a tree (here one whose ids are all
\* distinct), the edge drawn to a node uses "==>" when the node's parent is
\* an AND node and "-->" when the parent is not.
C10_ConnectorFollowsParentKind ==
  (IsExportResult /\ IdsAreDistinct) =>
    LET edges == LinesOfKind(ret.value, "edge")
    IN  \A k \in DOMAIN edges :
          edges[k].connector =
            IF nodes[ParentOf(nodes, NonRootPreorder[k])].node_type = NodeType.AND
              THEN "==>" ELSE "-->"

(***************************************************************************)
(* Properties of the trees of the report                                   *)
(***************************************************************************)
\* the ids of the LEAF nodes of a path, in path order
LeafIdsOf(path) ==
  LET IsLeaf(n) == nodes[n].node_type = NodeType.LEAF
      leaves == SelectSeq(path, IsLeaf)
  IN  [k \in 1..Len(leaves) |-> nodes[leaves[k]].id]

\* C11: for the Complete System Compromise tree (root G1),
\* find_easiest_path returns the Direct Backend Access branch: the LEAF
\* nodes of the path are A3 (Exploit No Authentication) followed by A4
\* (Invoke Sensitive Commands), as the generated report says.
C11_EasiestPathIsBackendAccess ==
  (IsFindResult /\ ret.minimize = "difficulty" /\ nodes[root].id = "G1") =>
    LeafIdsOf(ret.value) = << "A3", "A4" >>

(***************************************************************************)
(* Further properties of the path search                                   *)
(***************************************************************************)
\* the earliest child, in stored order, whose best path has the least score
EarliestBestChild(n, metric) ==
  LET cs == nodes[n].children
      k == CHOOSE i \in DOMAIN cs :
             /\ \A j \in DOMAIN cs : BestScore(cs[i], metric) <= BestScore(cs[j], metric)
             /\ \A j \in 1..(i - 1) : BestScore(cs[j], metric) > BestScore(cs[i], metric)
  IN  cs[k]

HasTie(n, metric) ==
  \E i, j \in DOMAIN nodes[n].children :
    /\ i < j
    /\ BestScore(nodes[n].children[i], metric) = BestScore(nodes[n].children[j], metric)
    /\ \A k \in DOMAIN nodes[n].children :
         BestScore(nodes[n].children[i], metric)
           <= BestScore(nodes[n].children[k], metric)

\* C12: once an entry point has searched the tree for its metric, the best
\* path of every OR node with children is the node followed by the best
\* path of the earliest child, in stored order, among the children whose
\* best paths have the least score; so is the returned path when the root is
\* such a node.
C12_FirstChildWinsTies ==
  IsFindResult =>
    /\ \A n \in Nodes :
         (nodes[n].node_type = NodeType.OR /\ nodes[n].children # <<>>) =>
           _find_path(nodes, n, ret.minimize)
             = <<n>> \o _find_path(nodes, EarliestBestChild(n, ret.minimize),
                                   ret.minimize)
    /\ (nodes[root].node_type = NodeType.OR /\ nodes[root].children # <<>>) =>
         ret.value[2] = EarliestBestChild(root, ret.minimize)

\* a search has returned on an OR root whose first child is worse than two
\* later children that tie for the least score
C12_Witness ==
  /\ IsFindResult
  /\ nodes[root].node_type = NodeType.OR
  /\ Len(nodes[root].children) >= 3
  /\ HasTie(root, ret.minimize)
  /\ EarliestBestChild(root, ret.minimize) # nodes[root].children[1]

\* the elements of a sequence, in order, that belong to a set
Restrict(s, S) == LET Keep(x) == x \in S IN SelectSeq(s, Keep)

EveryJunctionHasChildren ==
  \A n \in Nodes : nodes[n].node_type # NodeType.LEAF => nodes[n].children # <<>>

\* C16: the path an entry point returns starts with the root, repeats no
\* node, lists its nodes in the order of the tree's pre-order traversal,
\* holds the parent of each of its other nodes at an earlier position, holds
\* exactly one child of each of its OR nodes that has children and every
\* child of each of its AND nodes; and when every OR and AND node of the tree
\* has a child, each of its nodes without a child in the path is a LEAF.
C16_PathIsWellFormed ==
  IsFindResult =>
    LET path == ret.value
        S == Range(ret.value)
    IN  /\ path[1] = root
        /\ NoRepeats(path)
        /\ path = Restrict(Preorder(root), S)
        /\ \A k \in 2..Len(path) :
             \E j \in 1..(k - 1) : path[j] = ParentOf(nodes, path[k])
        /\ \A n \in S :
             /\ (nodes[n].node_type = NodeType.OR /\ nodes[n].children # <<>>)
                  => Cardinality(S \cap ChildSet(n)) = 1
             /\ nodes[n].node_type = NodeType.AND => ChildSet(n) \subseteq S
        /\ EveryJunctionHasChildren =>
             \A n \in S :
               S \cap ChildSet(n) = {} => nodes[n].node_type = NodeType.LEAF

\* a search has returned a path through an AND node with two children on a
\* tree in which every OR and AND node has a child and some node is left out
C16_Witness ==
  /\ IsFindResult
  /\ EveryJunctionHasChildren
  /\ \E n \in Range(ret.value) :
       nodes[n].node_type = NodeType.AND /\ Len(nodes[n].children) >= 2
  /\ Range(ret.value) # Nodes

(***************************************************************************)
(* Further properties of the diagram export                                *)
(***************************************************************************)
\* the walk taken call by call ends in the state export() computes
WalkAgreesWithExport ==
  [][(export_end /\ ret.op = "MermaidExporter") =>
       exporter' = _add_legend(_export_node(nodes, root, NoParent,
                                            ResetLines(MermaidExporter)))]_vars

\* the LEAF nodes in the order the walk meets them
LeavesInPreorder == Restrict(Preorder(root), LeafNodes)

MitigatedStyle == "fill:#d3f9d8,stroke:#51cf66,stroke-width:3px"

DifficultyStyle(difficulty) ==
  CASE difficulty = "TRIVIAL" -> "fill:#ff6b6b,stroke:#c92a2a,stroke-width:3px"
    [] difficulty = "LOW" -> "fill:#ffa06b,stroke:#e67700,stroke-width:2px"
    [] difficulty = "MEDIUM" -> "fill:#ffd93d,stroke:#fab005,stroke-width:2px"
    [] difficulty = "HIGH" -> "fill:#6bcb77,stroke:#2f9e44,stroke-width:2px"
    [] difficulty = "EXPERT" -> "fill:#4d96ff,stroke:#1971c2,stroke-width:2px"

\* C13: the text export returns holds one style directive for each LEAF
\* node, in the order of the walk and on the node's diagram identifier, and
\* none for an OR or AND node; the directive is the fixed mitigated style
\* when the leaf has mitigations, whatever its difficulty, and the colour
\* pair of the leaf's difficulty when it has none.
C13_OneStylePerLeaf ==
  IsExportResult =>
    LET styles == LinesOfKind(ret.value, "style")
    IN  /\ Len(styles) = Len(LeavesInPreorder)
        /\ \A k \in DOMAIN styles :
             LET leaf == nodes[LeavesInPreorder[k]]
             IN  /\ styles[k].node_id = exporter._node_ids[leaf.id]
                 /\ styles[k].style =
                      IF leaf.mitigations # <<>> THEN MitigatedStyle
                      ELSE DifficultyStyle(leaf.attributes.difficulty)

\* export has returned on a tree with an OR or AND node, a mitigated leaf
\* and an unmitigated leaf of another difficulty
C13_Witness ==
  /\ IsExportResult
  /\ Nodes \ LeafNodes # {}
  /\ \E m, u \in LeafNodes :
       /\ nodes[m].mitigations # <<>>
       /\ nodes[u].mitigations = <<>>
       /\ nodes[m].attributes.difficulty # nodes[u].attributes.difficulty

\* the nodes the current call of export() has handled so far
Visited ==
  SubSeq(Preorder(root), 1, Len(LinesOfKind(exporter._lines, "node")))

\* the nodes the exporter has met since it was constructed: all of them
\* once a call of export() has returned
Met == IF ret.op = "export" THEN Preorder(root) ELSE Visited

RECURSIVE FirstOccurrences(_, _)
FirstOccurrences(s, acc) ==
  IF s = <<>> THEN acc
  ELSE FirstOccurrences(Tail(s),
         IF Head(s) \in Range(acc) THEN acc ELSE Append(acc, Head(s)))

\* the ids met, each once, in the order of their first visit
IdsInVisitOrder ==
  FirstOccurrences([k \in DOMAIN Met |-> nodes[Met[k]].id], <<>>)

\* C14: at every point of an export walk, and between walks, the
\* exporter's memo maps exactly the ids met so far, the k-th of them in
\* order of first visit to N(k-1); it is injective and the counter is its
\* size; each declaration emitted so far carries the memo's identifier for
\* its node's id, so that two nodes get the same identifier exactly when
\* they have the same id.
C14_MemoFollowsFirstVisits ==
  exporter # None =>
    LET memo == exporter._node_ids
        decl == LinesOfKind(exporter._lines, "node")
    IN  /\ DOMAIN memo = Range(IdsInVisitOrder)
        /\ \A k \in DOMAIN IdsInVisitOrder :
             memo[IdsInVisitOrder[k]] = [N |-> k - 1]
        /\ \A a, b \in DOMAIN memo : memo[a] = memo[b] => a = b
        /\ exporter._node_count = Cardinality(DOMAIN memo)
        /\ \A k \in DOMAIN decl : decl[k].node_id = memo[nodes[Visited[k]].id]
        /\ \A j, k \in DOMAIN decl :
             decl[j].node_id = decl[k].node_id
               <=> nodes[Visited[j]].id = nodes[Visited[k]].id

\* a walk is under way: two nodes with the same id and one with another id
\* have been handled
C14_Witness ==
  /\ exporter # None
  /\ IsWalking
  /\ \E j, k \in DOMAIN Visited :
       j # k /\ nodes[Visited[j]].id = nodes[Visited[k]].id
  /\ \E j, k \in DOMAIN Visited : nodes[Visited[j]].id # nodes[Visited[k]].id

\* C17: when export() returns on an exporter whose previous call of
\* export() has returned, the tree being unchanged, it returns the same text
\* as the previous call; entering export() resets the line buffer only, the
\* identifier counter and the memo are kept.
C17_RepeatedExportIsIdentical ==
  [][/\ (export_end /\ ret.op = "export") => ret'.value = ret.value
     /\ export_begin =>
          /\ exporter'._lines = << [line |-> "flowchart TD"] >>
          /\ exporter'._node_count = exporter._node_count
          /\ exporter'._node_ids = exporter._node_ids]_vars

\* a second call of export() on the same exporter has walked a tree of three
\* nodes, two of them with the same id, and is about to return
C17_Witness ==
  /\ exporter # None
  /\ IsWalking
  /\ ret.op = "export"
  /\ exporter._calls = <<>>
  /\ Cardinality(Nodes) >= 3
  /\ exporter._node_count < Cardinality(Nodes)
  /\ exporter._node_count >= 2

(***************************************************************************)
(* Frame of the operations                                                 *)
(***************************************************************************)
\* C15: the three find entry points, get_all_leaf_attacks,
\* get_unmitigated_attacks, to_dict and export leave every node as it was
\* (kind, attributes, mitigations, ordered children); a step that changes
\* the nodes is an add_child, which appends the one new node to the
\* receiver's children and changes nothing else of any existing node.
C15_OnlyAddChildChangesNodes ==
  [][/\ ( \/ find_easiest_path \/ find_cheapest_path \/ find_stealthiest_path
          \/ (ret'.op = "get_all_leaf_attacks" /\ get_all_leaf_attacks)
          \/ (ret'.op = "get_unmitigated_attacks" /\ get_unmitigated_attacks)
          \/ (ret'.op = "to_dict" /\ to_dict)
          \/ NewMermaidExporter
          \/ (ret'.op = "export" /\ export) ) => nodes' = nodes
     /\ nodes' # nodes =>
          /\ phase = "build"
          /\ Len(nodes') = Len(nodes) + 1
          /\ \E parent \in DOMAIN nodes :
               /\ nodes'[parent] =
                    [nodes[parent] EXCEPT !.children = Append(@, Len(nodes) + 1)]
               /\ \A n \in DOMAIN nodes \ {parent} : nodes'[n] = nodes[n]]_vars

\* a tree of three nodes, the root with a child that was given a child of
\* its own, has been exported and then serialised
C15_Witness ==
  /\ phase = "tree"
  /\ ret.op = "to_dict"
  /\ exporter # None
  /\ exporter._lines # <<>>
  /\ Cardinality(Nodes) >= 3
  /\ \E n \in Nodes \ {root} : nodes[n].children # <<>>

====
